---- MODULE Spec2Model ----
(***************************************************************************)
(* Asset-graph tool layer of sensa-graph-mcp.                              *)
(*                                                                         *)
(* Three state machines share this module:                                 *)
(*   Spec          the graph store and the generic traversal/aggregation   *)
(*                 tool aggregate_incoming with its validity filter;       *)
(*   SpecLoop      the /chat orchestration loop between the reasoning      *)
(*                 model and the tool registry;                            *)
(*   SpecDispatch  one ExecutingTools step: the tool calls of one model    *)
(*                 response, each going through invoke, dispatched         *)
(*                 concurrently against the store.                         *)
(* Each specification moves its own variables and leaves the others at     *)
(* their initial values.                                                   *)
(***************************************************************************)
EXTENDS Integers, Sequences, FiniteSets, TLC

VARIABLES
    edges,          \* the store's relationships, in creation order
    now,            \* the loader's clock (instants are integers)
    lastReq,        \* input of the aggregate_incoming call just answered
    lastRes,        \* its response
    loopState,      \* AwaitingModel | ExecutingTools | Done
    iteration,      \* completed AwaitingModel/ExecutingTools round trips
    conversation,   \* the messages accumulated for the reasoning model
    lastResponse,   \* the latest response of the reasoning model
    requested,      \* tool_use blocks of the latest model response
    lastOutcomes,   \* what each call of the latest ExecutingTools step ended in
    modelCalls,     \* number of calls made to the reasoning model
    toolRounds,     \* number of ExecutingTools steps performed
    toolRequests,   \* number of model responses that carried tool_use blocks
    directive,      \* the latest model call carried the final-answer directive
    answer,         \* ChatResponse.response
    calls,          \* the tool calls of one model response, in request order
    storeLog,       \* queries issued to the store
    completed,      \* results in the order the calls finished
    folded,         \* tool results as appended to the conversation
    graphNodes,     \* backend: node id -> properties (pairs <<key, value>>)
    graphEdges,     \* backend: the relationships
    nodes,          \* useGraph: the nodes held by the frontend
    relationships,  \* useGraph: the relationships held by the frontend
    fetches,        \* graph requests that were sent and not yet answered
    selectedNode,   \* useGraph: the selected node (id, properties) or NoNode
    isEditing,      \* useNodeProperties state
    editableProperties,
    isSaving,
    error,
    successMessage,
    pendingUpdate,  \* the PUT request of handleSave that is in flight
    lastHandler,    \* the handler that ran last
    sessionId,      \* useChat state
    messages,
    chatInput,      \* useChat's `input`
    isLoading,
    inFlight,       \* chat requests that were sent and not yet answered
    sent,           \* every chat request sent, in order
    uuids,          \* number of crypto.randomUUID() values generated
    lastCleared     \* session id generated by the latest clearMessages

engineVars == <<edges, now, lastReq, lastRes>>
loopVars == <<loopState, iteration, conversation, lastResponse, requested,
              lastOutcomes, modelCalls, toolRounds, toolRequests, directive,
              answer>>
dispatchVars == <<calls, storeLog, completed, folded>>
graphVars == <<nodes, relationships, fetches>>
editVars == <<graphNodes, graphEdges, graphVars, selectedNode, isEditing,
              editableProperties, isSaving, error, successMessage, pendingUpdate,
              lastHandler>>
chatVars == <<sessionId, messages, chatInput, isLoading, inFlight, sent, uuids, lastCleared>>
uiVars == <<editVars, chatVars>>
vars == <<engineVars, loopVars, dispatchVars, uiVars>>

(***************************************************************************)
(* Bounds of the model.                                                    *)
(***************************************************************************)
MaxTime == 2
MaxEdges == 3
MaxToolUses == 1
MaxCalls == 2
MaxMoves == 2

\* validity_to of a current relationship ("null for current").
NULL == -1

Min(a, b) == IF a <= b THEN a ELSE b

(***************************************************************************)
(* The graph: nodes are loaded once, relationships carry validity.         *)
(***************************************************************************)
\* Node identifiers of the fixture.
BIOFILTER_11 == "Biofilter 11"
FEEDING_SYSTEM == "Feeding System"
OXYGEN_SENSOR == "Oxygen Sensor"
PUMP_001 == "Pump_001"
VALVE_V001 == "Valve_V001"
HALL_4 == "Hall 4"

Nodes == {BIOFILTER_11, FEEDING_SYSTEM, OXYGEN_SENSOR, PUMP_001}

NodeLabel(n) ==
    CASE n = BIOFILTER_11 -> "Location"
      [] n = HALL_4 -> "Location"
      [] n = FEEDING_SYSTEM -> "System"
      [] OTHER -> "Asset"

Assets == {n \in Nodes : NodeLabel(n) = "Asset"}

\* (:Asset)-[:LOCATED_IN]->(:Location), (:Asset)-[:PART_OF_SYSTEM]->(:System)
EdgeShapes ==
    {[src |-> a, type |-> "LOCATED_IN", dst |-> BIOFILTER_11] : a \in Assets}
    \cup {[src |-> OXYGEN_SENSOR, type |-> "PART_OF_SYSTEM", dst |-> FEEDING_SYSTEM]}

Times == 0..MaxTime

IsOpen(e) == e.validity_to = NULL

SameShape(e, s) == e.src = s.src /\ e.type = s.type /\ e.dst = s.dst

(***************************************************************************)
(* aggregate_incoming: validity filter, traversal, aggregation.            *)
(***************************************************************************)
\* An optional string field that was not supplied.
ABSENT == "absent"

\* limit (Integer, optional): "Maximum results for list aggregation (default: 1000)".
DEFAULT_LIMIT == 1000

\* validity_filter.current_only: "Only current relationships (default: true)".
current_only_default_false(f) == f.current_only = "true"

current_only(f) == f.current_only # "false"

\* The WHERE clause on r of the traversal query, for validity_filter f:
\*   as_of_date:    r.validity_from <= $as_of_date
\*                  AND (r.validity_to IS NULL OR r.validity_to >= $as_of_date)
\*   current_only:  r.validity_to IS NULL
is_live_as_of_open_only(r, f) ==
    IF f.as_of_date # NULL
    THEN r.validity_from <= f.as_of_date /\ r.validity_to = NULL
    ELSE IF current_only(f) THEN r.validity_to = NULL ELSE TRUE

is_live(r, f) ==
    IF f.as_of_date # NULL
    THEN r.validity_from <= f.as_of_date
         /\ (r.validity_to = NULL \/ r.validity_to >= f.as_of_date)
    ELSE IF current_only(f) THEN r.validity_to = NULL ELSE TRUE

\* MATCH (target)-[r]->(start) for INCOMING, (start)-[r]->(target) for OUTGOING,
\* either for BOTH; WHERE type(r) IN $relationship_types.
Touches(r, req) ==
    /\ r.type \in req.relationship_types
    /\ \/ req.direction \in {"INCOMING", "BOTH"} /\ r.dst = req.start_node_id
       \/ req.direction \in {"OUTGOING", "BOTH"} /\ r.src = req.start_node_id

Target(r, req) ==
    IF req.direction \in {"INCOMING", "BOTH"} /\ r.dst = req.start_node_id
    THEN r.src
    ELSE r.dst

\* (target:Asset): the optional target_label of the pattern.
LabelMatches(r, req) ==
    req.target_label = ABSENT \/ NodeLabel(Target(r, req)) = req.target_label

Qualifies(r, req) ==
    Touches(r, req) /\ LabelMatches(r, req) /\ is_live(r, req.validity_filter)

\* The rows of the single traversal query: one row per qualifying relationship,
\* in the store's order.
Rows(store, req) ==
    LET keep(r) == Qualifies(r, req)
    IN SelectSeq(store, keep)

Targets(store, req) ==
    LET rows == Rows(store, req)
    IN [i \in 1..Len(rows) |-> Target(rows[i], req)]

Range(s) == {s[i] : i \in 1..Len(s)}

\* Order-preserving removal of repeated entries.
RECURSIVE Dedup(_)
Dedup(s) ==
    IF s = <<>> THEN <<>>
    ELSE LET front == Dedup(SubSeq(s, 1, Len(s) - 1))
             last == s[Len(s)]
         IN IF last \in Range(front) THEN front ELSE Append(front, last)

\* The cap a caller-supplied limit is clamped to.
MAX_LIMIT == DEFAULT_LIMIT

effective_limit_unclamped(req) == IF req.limit = NULL THEN DEFAULT_LIMIT ELSE req.limit

effective_limit(req) ==
    IF req.limit = NULL THEN DEFAULT_LIMIT ELSE Min(req.limit, MAX_LIMIT)

\* RETURN count(target) AS result
count_result(store, req) == Len(Targets(store, req))

\* RETURN target ... LIMIT $limit
list_result_distinct(store, req) ==
    LET t == Dedup(Targets(store, req))
    IN SubSeq(t, 1, Min(Len(t), effective_limit(req)))

list_result(store, req) ==
    LET t == Targets(store, req)
    IN SubSeq(t, 1, Min(Len(t), effective_limit(req)))

\* relationship_count: "Number of relationships traversed".
relationship_count(store, req) == Len(Rows(store, req))

\* target_nodes_found: "Number of target nodes matched".
target_nodes_found(store, req) == Cardinality(Range(Targets(store, req)))

aggregate(store, req) ==
    [result |-> IF req.aggregation = "count"
                THEN count_result(store, req)
                ELSE list_result(store, req),
     relationship_count |-> relationship_count(store, req),
     target_nodes_found |-> target_nodes_found(store, req)]

(***************************************************************************)
(* Inputs of aggregate_incoming that passed parameter validation.          *)
(***************************************************************************)
ValidityFilters ==
    {[as_of_date |-> NULL, current_only |-> c] : c \in {ABSENT, "true", "false"}}
    \cup {[as_of_date |-> t, current_only |-> ABSENT] : t \in Times}

NoFilter == [as_of_date |-> NULL, current_only |-> ABSENT]

Requests ==
    [tool : {"aggregate_incoming"},
     start_node_id : {BIOFILTER_11, OXYGEN_SENSOR},
     relationship_types : {{"LOCATED_IN"}, {"LOCATED_IN", "PART_OF_SYSTEM"}},
     direction : {"INCOMING", "OUTGOING", "BOTH"},
     target_label : {ABSENT, "Asset"},
     aggregation : {"count", "list"},
     validity_filter : ValidityFilters,
     limit : {NULL}]
    \cup [tool : {"aggregate_incoming"},
          start_node_id : {BIOFILTER_11},
          relationship_types : {{"LOCATED_IN"}},
          direction : {"INCOMING"},
          target_label : {"Asset"},
          aggregation : {"list"},
          validity_filter : {[as_of_date |-> NULL, current_only |-> c] : c \in {ABSENT, "false"}},
          limit : {1, 5000}]

NoCall == [tool |-> "none"]

(***************************************************************************)
(* Spec: the store under the loader, queried through aggregate_incoming.   *)
(***************************************************************************)
InitEngine ==
    /\ edges = <<>>
    /\ now = 0
    /\ lastReq = NoCall
    /\ lastRes = NoCall

\* The loader creates a relationship, valid from now on ("validity_to: null").
\* A relationship that is still current is not loaded a second time.
LoadRelationship(s) ==
    /\ lastReq = NoCall
    /\ Len(edges) < MaxEdges
    /\ \A i \in 1..Len(edges) : ~(SameShape(edges[i], s) /\ IsOpen(edges[i]))
    /\ edges' = Append(edges, [src |-> s.src, type |-> s.type, dst |-> s.dst,
                               validity_from |-> now, validity_to |-> NULL])
    /\ UNCHANGED <<now, lastReq, lastRes>>

\* A structural change closes the relationship: validity_to is set, the
\* relationship stays in the store.
CloseRelationship(i) ==
    /\ lastReq = NoCall
    /\ IsOpen(edges[i])
    /\ edges[i].validity_from < now
    /\ edges' = [edges EXCEPT ![i].validity_to = now]
    /\ UNCHANGED <<now, lastReq, lastRes>>

Tick ==
    /\ lastReq = NoCall
    /\ now < MaxTime
    /\ now' = now + 1
    /\ UNCHANGED <<edges, lastReq, lastRes>>

\* The tool call: one read query against the store, the response returned.
aggregate_incoming(req) ==
    /\ lastReq = NoCall
    /\ lastReq' = req
    /\ lastRes' = aggregate(edges, req)
    /\ UNCHANGED <<edges, now>>

\* The caller has taken the response; the next call or load may start.
ResponseTaken ==
    /\ lastReq # NoCall
    /\ lastReq' = NoCall
    /\ lastRes' = NoCall
    /\ UNCHANGED <<edges, now>>

(***************************************************************************)
(* Parked values of the variables a specification does not move.           *)
(***************************************************************************)
ParkedEngine ==
    /\ edges = <<>>
    /\ now = 0
    /\ lastReq = NoCall
    /\ lastRes = NoCall

ParkedLoop ==
    /\ loopState = "Idle"
    /\ iteration = 0
    /\ conversation = <<>>
    /\ lastResponse = [text |-> ABSENT, tool_use |-> 0]
    /\ requested = <<>>
    /\ lastOutcomes = <<>>
    /\ modelCalls = 0
    /\ toolRounds = 0
    /\ toolRequests = 0
    /\ directive = FALSE
    /\ answer = ABSENT

ParkedDispatch ==
    /\ calls = <<>>
    /\ storeLog = <<>>
    /\ completed = <<>>
    /\ folded = <<>>

\* Absent string-valued state (null / undefined).
NO_KEY == <<"undefined">>

NoNode == [id |-> ABSENT, properties |-> {}]

NoUpdate == [node_id |-> ABSENT, properties |-> {}, delete_properties |-> <<>>]

ParkedEdit ==
    /\ graphNodes = <<>>
    /\ graphEdges = {}
    /\ nodes = <<>>
    /\ relationships = <<>>
    /\ fetches = <<>>
    /\ selectedNode = NoNode
    /\ isEditing = FALSE
    /\ editableProperties = <<>>
    /\ isSaving = FALSE
    /\ error = ABSENT
    /\ successMessage = ABSENT
    /\ pendingUpdate = NoUpdate
    /\ lastHandler = ABSENT

ParkedChat ==
    /\ sessionId = ABSENT
    /\ messages = <<>>
    /\ chatInput = <<>>
    /\ isLoading = FALSE
    /\ inFlight = {}
    /\ sent = <<>>
    /\ uuids = 0
    /\ lastCleared = [session_id |-> ABSENT, sent |-> 0]

ParkedUi == ParkedEdit /\ ParkedChat

Init == InitEngine /\ ParkedLoop /\ ParkedDispatch /\ ParkedUi

Next ==
    \/ \E s \in EdgeShapes : LoadRelationship(s) /\ UNCHANGED <<loopVars, dispatchVars, uiVars>>
    \/ \E i \in 1..Len(edges) : CloseRelationship(i) /\ UNCHANGED <<loopVars, dispatchVars, uiVars>>
    \/ Tick /\ UNCHANGED <<loopVars, dispatchVars, uiVars>>
    \/ \E req \in Requests : aggregate_incoming(req) /\ UNCHANGED <<loopVars, dispatchVars, uiVars>>
    \/ ResponseTaken /\ UNCHANGED <<loopVars, dispatchVars, uiVars>>

Spec == Init /\ [][Next]_vars

(***************************************************************************)
(* SpecMove: the loaded fixture (three assets in Biofilter 11) under       *)
(* structural changes that move an asset to another location.              *)
(***************************************************************************)
\* "Count items in Biofilter 11 (3 assets: Oxygen Sensor, Pump_001, Valve_V001)".
FixtureAssets == <<OXYGEN_SENSOR, PUMP_001, VALVE_V001>>

Locations == {BIOFILTER_11, HALL_4}

FixtureEdges ==
    [i \in 1..Len(FixtureAssets) |->
        [src |-> FixtureAssets[i], type |-> "LOCATED_IN", dst |-> BIOFILTER_11,
         validity_from |-> 0, validity_to |-> NULL]]

CountRequest(location, f) ==
    [tool |-> "aggregate_incoming", start_node_id |-> location,
     relationship_types |-> {"LOCATED_IN"}, direction |-> "INCOMING",
     target_label |-> "Asset", aggregation |-> "count",
     validity_filter |-> f, limit |-> NULL]

CurrentOnly == [as_of_date |-> NULL, current_only |-> "true"]

AsOf(t) == [as_of_date |-> t, current_only |-> ABSENT]

MoveRequests ==
    {CountRequest(l, f) : l \in Locations, f \in {CurrentOnly} \cup {AsOf(t) : t \in Times}}

\* Nodes of the loaded graph as the resolver sees them: the element id, the
\* label and the name property. A signal that changed version has two nodes
\* of the same name.
FixtureNodes ==
    {[node_id |-> "4:0", label |-> "Location", name |-> BIOFILTER_11],
     [node_id |-> "4:1", label |-> "Location", name |-> HALL_4],
     [node_id |-> "4:2", label |-> "Asset", name |-> OXYGEN_SENSOR],
     [node_id |-> "4:3", label |-> "Asset", name |-> PUMP_001],
     [node_id |-> "4:4", label |-> "Asset", name |-> VALVE_V001],
     [node_id |-> "4:5", label |-> "Signal", name |-> "Flow_RAW"],
     [node_id |-> "4:6", label |-> "Signal", name |-> "Flow_RAW"]}

\* MATCH (n:Label {name: $name}) RETURN n LIMIT 1
Matches(label, name) == {n \in FixtureNodes : n.label = label /\ n.name = name}

NotFound == [is_error |-> FALSE, found |-> FALSE, node_id |-> ABSENT,
             label |-> ABSENT, attributes |-> {}]

Found(n) == [is_error |-> FALSE, found |-> TRUE, node_id |-> n.node_id,
             label |-> n.label, attributes |-> {<<"name", n.name>>}]

ToolError(kind) == [is_error |-> TRUE, error |-> kind]

\* The results get_node_by_name may return for (label, name): the one row of
\* LIMIT 1, or found: false when there is no row.
resolve_raises_when_absent(label, name) ==
    IF Matches(label, name) = {}
    THEN {ToolError("NotFound")}
    ELSE {Found(n) : n \in Matches(label, name)}

resolve(label, name) ==
    IF Matches(label, name) = {}
    THEN {NotFound}
    ELSE {Found(n) : n \in Matches(label, name)}

ResolveRequests ==
    [tool : {"get_node_by_name"},
     label : {"Location", "Asset", "Signal"},
     name : {BIOFILTER_11, OXYGEN_SENSOR, "Flow_RAW", "Tank 9"}]

\* The tool call: one read query; a store failure is returned as a tool error.
get_node_by_name(req, outcome) ==
    /\ lastReq = NoCall
    /\ lastReq' = req
    /\ IF outcome = "rows"
       THEN lastRes' \in resolve(req.label, req.name)
       ELSE lastRes' = ToolError("StoreUnavailable")
    /\ UNCHANGED <<edges, now>>

InitMove ==
    /\ edges = FixtureEdges
    /\ now = 0
    /\ lastReq = NoCall
    /\ lastRes = NoCall

\* The asset of relationship i is moved: the old relationship is closed
\* (validity_to set, the relationship kept) and a new one to dst is opened.
MoveAsset(i, dst) ==
    /\ lastReq = NoCall
    /\ Len(edges) < Len(FixtureEdges) + MaxMoves
    /\ edges[i].type = "LOCATED_IN"
    /\ IsOpen(edges[i])
    /\ edges[i].validity_from < now
    /\ dst # edges[i].dst
    /\ edges' = Append([edges EXCEPT ![i].validity_to = now],
                       [src |-> edges[i].src, type |-> "LOCATED_IN", dst |-> dst,
                        validity_from |-> now, validity_to |-> NULL])
    /\ UNCHANGED <<now, lastReq, lastRes>>

NextMove ==
    \/ \E i \in 1..Len(edges), dst \in Locations :
          MoveAsset(i, dst) /\ UNCHANGED <<loopVars, dispatchVars, uiVars>>
    \/ Tick /\ UNCHANGED <<loopVars, dispatchVars, uiVars>>
    \/ \E req \in MoveRequests : aggregate_incoming(req) /\ UNCHANGED <<loopVars, dispatchVars, uiVars>>
    \/ \E req \in ResolveRequests, outcome \in {"rows", "exception"} :
          get_node_by_name(req, outcome) /\ UNCHANGED <<loopVars, dispatchVars, uiVars>>
    \/ ResponseTaken /\ UNCHANGED <<loopVars, dispatchVars, uiVars>>

MoveInit == InitMove /\ ParkedLoop /\ ParkedDispatch /\ ParkedUi

SpecMove == MoveInit /\ [][NextMove]_vars

(***************************************************************************)
(* SpecLoop: POST /chat, the loop between the reasoning model and the      *)
(* tools.                                                                  *)
(***************************************************************************)
\* "Max iterations (5) reached -> one last LLM call to get a final answer."
MAX_ITERATIONS == 5

\* Texts the reasoning model may return.
Texts == {"3 assets", "I could not find it"}

\* A response of the reasoning model: text and/or tool_use blocks (here their
\* number; block i of round k carries the identifier <<k, i>>).
Responses == [text : Texts, tool_use : 0..MaxToolUses]

\* What one tool call can end in: a result, or one of the failures of the
\* error taxonomy.
Outcomes == {"ok", "ValidationError", "ModelProtocolError", "StoreUnavailable"}

ToolUseIds(round, n) == [i \in 1..n |-> <<round, i>>]

\* A message of the conversation: the user's query, a tool_use block of the
\* assistant, or a tool_result block handed back to it.
Message(role, type, id, is_error) ==
    [role |-> role, type |-> type, tool_use_id |-> id, is_error |-> is_error]

InitLoop ==
    /\ loopState = "AwaitingModel"
    /\ iteration = 0
    /\ conversation = <<Message("user", "text", <<0, 0>>, FALSE)>>
    /\ lastResponse = [text |-> ABSENT, tool_use |-> 0]
    /\ requested = <<>>
    /\ lastOutcomes = <<>>
    /\ modelCalls = 0
    /\ toolRounds = 0
    /\ toolRequests = 0
    /\ directive = FALSE
    /\ answer = ABSENT

\* The bound on round trips is reached: the next model call is the last one
\* and carries the directive to answer from the accumulated results.
BoundReached_off_by_one == iteration > MAX_ITERATIONS

BoundReached == iteration >= MAX_ITERATIONS

\* The response ends the loop: no tool_use in it, or the call was the last one.
IsFinal_tools_win(resp) == resp.tool_use = 0

IsFinal_any_text(resp) == resp.text # ABSENT \/ BoundReached

IsFinal(resp) == resp.tool_use = 0 \/ BoundReached

\* execute_tool never raises: a failure of the call becomes the tool result.
tool_result_propagates(id, outcome) ==
    IF outcome = "StoreUnavailable"
    THEN Message("user", "raised", id, TRUE)
    ELSE Message("user", "tool_result", id, outcome # "ok")

tool_result(id, outcome) == Message("user", "tool_result", id, outcome # "ok")

\* One call of the reasoning model and the loop's decision on its response.
CallModel(resp) ==
    /\ loopState = "AwaitingModel"
    /\ modelCalls' = modelCalls + 1
    /\ directive' = BoundReached
    /\ lastResponse' = resp
    /\ requested' = ToolUseIds(iteration + 1, resp.tool_use)
    /\ toolRequests' = IF resp.tool_use >= 1 THEN toolRequests + 1 ELSE toolRequests
    /\ IF IsFinal(resp)
       THEN /\ loopState' = "Done"
            /\ answer' = resp.text
            /\ UNCHANGED conversation
       ELSE /\ loopState' = "ExecutingTools"
            /\ conversation' = conversation \o
                   [i \in 1..resp.tool_use |->
                       Message("assistant", "tool_use", ToolUseIds(iteration + 1, resp.tool_use)[i], FALSE)]
            /\ UNCHANGED answer
    /\ UNCHANGED <<iteration, toolRounds, lastOutcomes>>

\* execute_tool for each tool_use block; the results are appended to the
\* conversation and the model is called again.
ExecuteTools(outcomes) ==
    /\ loopState = "ExecutingTools"
    /\ LET results == [i \in 1..Len(requested) |-> tool_result(requested[i], outcomes[i])]
       IN /\ conversation' = conversation \o results
          /\ loopState' = IF \E i \in 1..Len(results) : results[i].type = "raised"
                          THEN "Crashed"
                          ELSE "AwaitingModel"
    /\ lastOutcomes' = outcomes
    /\ iteration' = iteration + 1
    /\ toolRounds' = toolRounds + 1
    /\ UNCHANGED <<lastResponse, requested, modelCalls, toolRequests, directive, answer>>

NextLoop ==
    \/ \E resp \in Responses : CallModel(resp) /\ UNCHANGED <<engineVars, dispatchVars, uiVars>>
    \/ \E outcomes \in [1..Len(requested) -> Outcomes] :
          ExecuteTools(outcomes) /\ UNCHANGED <<engineVars, dispatchVars, uiVars>>

LoopInit == ParkedEngine /\ InitLoop /\ ParkedDispatch /\ ParkedUi

SpecLoop == LoopInit /\ [][NextLoop]_vars

(***************************************************************************)
(* SpecDispatch: one ExecutingTools step. Every tool_use block of the      *)
(* response goes through invoke (parameter validation, then the node       *)
(* resolver or the traversal engine, then the store); the calls run        *)
(* concurrently and their results are folded back by call identifier.      *)
(***************************************************************************)
\* The schema-derived allow-lists (node labels and relationship types of the
\* graph model), fetched once and cached.
ALLOWED_LABELS == {"Category", "Location", "System", "MeasuringUnit", "Asset", "Signal"}

ALLOWED_RELATIONSHIP_TYPES ==
    {"BELONGS_TO", "LOCATED_IN", "BELONGS_TO_LOCATION_CATEGORY", "PART_OF_SYSTEM",
     "BELONGS_TO_SYSTEM_CATEGORY", "BELONGS_TO_MEASURING_UNIT_CATEGORY", "MEASURES"}

\* Inputs the reasoning model may construct: for each tool, values inside and
\* outside the allow-lists, and arguments that do not fit the tool's schema.
\* validity_filter is given by the fields it carries; text is the string the
\* caller supplies (the name to look up, the Cypher of run_query).
ToolInput(tool, label, types, filter, text, well_formed) ==
    [tool |-> tool, label |-> label, relationship_types |-> types,
     validity_filter |-> filter, text |-> text, well_formed |-> well_formed]

ToolInputs ==
    {ToolInput("get_node_by_name", l, {}, "none", BIOFILTER_11, TRUE) :
        l \in {"Location", "Robot"}}
    \cup {ToolInput("aggregate_incoming", l, ts, "none", ABSENT, TRUE) :
              l \in {"Asset", "Robot"},
              ts \in {{"LOCATED_IN"}, {"LOCATED_IN", "OWNS"}}}
    \cup {ToolInput("aggregate_incoming", "Location", {"LOCATED_IN"}, "none", ABSENT, TRUE)}
    \cup {ToolInput("aggregate_incoming", "Asset", {"LOCATED_IN"}, f, ABSENT, TRUE) :
              f \in {"as_of_date", "current_only", "both"}}
    \cup {ToolInput("run_query", ABSENT, {}, "none", q, TRUE) :
              q \in {"MATCH (n) RETURN count(n)", "MATCH (a:Asset) RETURN a.name"}}
    \cup {ToolInput("aggregate_incoming", ABSENT, {}, "none", ABSENT, FALSE)}

\* validate(request) -> Ok | RejectionReason
validate_ignores_relationship_types(input) ==
    IF input.label # ABSENT /\ input.label \notin ALLOWED_LABELS
    THEN "unknown label"
    ELSE "Ok"

validate_as_of_wins(input) ==
    IF input.label # ABSENT /\ input.label \notin ALLOWED_LABELS
    THEN "unknown label"
    ELSE IF ~(input.relationship_types \subseteq ALLOWED_RELATIONSHIP_TYPES)
    THEN "unknown relationship type"
    ELSE "Ok"

validate(input) ==
    IF input.label # ABSENT /\ input.label \notin ALLOWED_LABELS
    THEN "unknown label"
    ELSE IF ~(input.relationship_types \subseteq ALLOWED_RELATIONSHIP_TYPES)
    THEN "unknown relationship type"
    ELSE IF input.validity_filter = "both"
    THEN "as_of_date and current_only both supplied"
    ELSE "Ok"

\* invoke applies the validator to the input of every tool.
Accepted_lookup_bypasses(input) ==
    input.tool = "get_node_by_name" \/ validate(input) = "Ok"

Accepted(input) == validate(input) = "Ok"

\* The handler a tool name is registered with.
Handler(tool) ==
    CASE tool = "get_node_by_name" -> "resolver"
      [] tool = "aggregate_incoming" -> "engine"
      [] OTHER -> tool

\* The WHERE clause on r for the validity filter of the request.
ValidityClause(filter) ==
    CASE filter = "as_of_date" ->
           "r.validity_from <= $as_of_date AND (r.validity_to IS NULL OR r.validity_to >= $as_of_date)"
      [] OTHER -> "r.validity_to IS NULL"

\* The text of the query, in pieces: the Cypher reference patterns, with the
\* label written into the pattern; run_query sends the Cypher it is given.
QueryText(input) ==
    CASE input.tool = "get_node_by_name" ->
           <<"MATCH (n:", input.label, " {name: $name}) RETURN n LIMIT 1">>
      [] input.tool = "aggregate_incoming" ->
           <<"MATCH (start) WHERE id(start) = $start_id MATCH (target:", input.label,
             ")-[r]->(start) WHERE type(r) IN $relationship_types AND ",
             ValidityClause(input.validity_filter), " RETURN count(target) AS result">>
      [] OTHER -> <<input.text>>

BoundParameters(input) ==
    CASE input.tool = "get_node_by_name" -> {<<"name", input.text>>}
      [] input.tool = "aggregate_incoming" ->
           {<<"relationship_types", input.relationship_types>>}
      [] OTHER -> {}

\* run_read_query(query_template, bound_parameters) of the handler.
StoreQuery(id, input) ==
    [tool_use_id |-> id,
     query_template |-> QueryText(input),
     bound_parameters |-> BoundParameters(input),
     label |-> input.label,
     relationship_types |-> input.relationship_types,
     validity_filter |-> input.validity_filter]

\* invoke(name, input) up to the store call: arguments that do not fit the
\* schema and inputs the validator rejects end the call with an error and
\* reach neither handler nor store.
invoke(c) ==
    IF ~c.input.well_formed
    THEN [c EXCEPT !.phase = "done", !.result = "ModelProtocolError",
                   !.trail = <<"invoke">>]
    ELSE IF ~Accepted(c.input)
    THEN [c EXCEPT !.phase = "done", !.result = "ValidationError",
                   !.trail = <<"invoke", "validator">>]
    ELSE [c EXCEPT !.phase = "in_store",
                   !.trail = <<"invoke", "validator", Handler(c.input.tool), "store">>]

InitDispatch ==
    /\ \E n \in 1..MaxCalls :
         \E inputs \in [1..n -> ToolInputs] :
            calls = [i \in 1..n |-> [tool_use_id |-> ToolUseIds(1, n)[i],
                                     input |-> inputs[i],
                                     phase |-> "requested",
                                     result |-> "none",
                                     store_outcome |-> "none",
                                     trail |-> <<>>]]
    /\ storeLog = <<>>
    /\ completed = <<>>
    /\ folded = <<>>

\* Call i is dispatched.
Invoke(i) ==
    /\ calls[i].phase = "requested"
    /\ LET c == invoke(calls[i])
       IN /\ calls' = [calls EXCEPT ![i] = c]
          /\ storeLog' = IF c.phase = "in_store"
                         THEN Append(storeLog, StoreQuery(c.tool_use_id, c.input))
                         ELSE storeLog
          /\ completed' = IF c.phase = "done"
                          THEN Append(completed, [tool_use_id |-> c.tool_use_id,
                                                  result |-> c.result])
                          ELSE completed
    /\ UNCHANGED folded

\* The store answers the query of call i: rows, an exception, or nothing
\* within the per-request timeout.
StoreReturns_resends_on_timeout(i, outcome) ==
    /\ calls[i].phase = "in_store"
    /\ LET r == IF outcome = "rows" THEN "ok" ELSE "StoreUnavailable"
       IN IF outcome = "timeout" /\ Len(storeLog) <= Len(calls)
          THEN /\ storeLog' = Append(storeLog, StoreQuery(calls[i].tool_use_id, calls[i].input))
               /\ UNCHANGED <<calls, completed>>
          ELSE /\ calls' = [calls EXCEPT ![i].phase = "done", ![i].result = r,
                                         ![i].store_outcome = outcome]
               /\ completed' = Append(completed, [tool_use_id |-> calls[i].tool_use_id,
                                                  result |-> r])
               /\ UNCHANGED storeLog
    /\ UNCHANGED folded

StoreReturns(i, outcome) ==
    /\ calls[i].phase = "in_store"
    /\ LET r == IF outcome = "rows" THEN "ok" ELSE "StoreUnavailable"
       IN /\ calls' = [calls EXCEPT ![i].phase = "done", ![i].result = r,
                                    ![i].store_outcome = outcome]
          /\ completed' = Append(completed, [tool_use_id |-> calls[i].tool_use_id,
                                             result |-> r])
    /\ UNCHANGED <<storeLog, folded>>

\* The result that finished under identifier id.
ResultOf(done, id) ==
    LET k == CHOOSE k \in 1..Len(done) : done[k].tool_use_id = id
    IN done[k].result

\* The tool results in request order, each under the identifier of its call.
fold_by_completion_order(cs, done) ==
    [i \in 1..Len(cs) |-> tool_result(cs[i].tool_use_id, done[i].result)]

fold(cs, done) ==
    [i \in 1..Len(cs) |-> tool_result(cs[i].tool_use_id, ResultOf(done, cs[i].tool_use_id))]

\* All calls of the response have finished: their results are appended.
FoldResults ==
    /\ folded = <<>>
    /\ \A i \in 1..Len(calls) : calls[i].phase = "done"
    /\ folded' = fold(calls, completed)
    /\ UNCHANGED <<calls, storeLog, completed>>

NextDispatch ==
    \/ \E i \in 1..Len(calls) : Invoke(i) /\ UNCHANGED <<engineVars, loopVars, uiVars>>
    \/ \E i \in 1..Len(calls) : \E outcome \in {"rows", "exception", "timeout"} :
          StoreReturns(i, outcome) /\ UNCHANGED <<engineVars, loopVars, uiVars>>
    \/ FoldResults /\ UNCHANGED <<engineVars, loopVars, uiVars>>

DispatchInit == ParkedEngine /\ ParkedLoop /\ InitDispatch /\ ParkedUi

SpecDispatch == DispatchInit /\ [][NextDispatch]_vars

(***************************************************************************)
(* Claims about the validity filter and the aggregation (under Spec).      *)
(***************************************************************************)
Answered == lastReq # NoCall

\* Relationships of the store the answered call reaches before the validity
\* filter is applied.
Reached == {i \in 1..Len(edges) : Touches(edges[i], lastReq) /\ LabelMatches(edges[i], lastReq)}

InWindow(r, t) ==
    r.validity_from <= t /\ (r.validity_to = NULL \/ r.validity_to > t)

\* C1: for every relationship and every instant t, is_live under as_of=t is
\* true exactly when validity_from <= t and validity_to is open or > t (the end
\* of the window is exclusive), and the call traverses exactly those.
C1_AsOfWindowEndExclusive ==
    (Answered /\ lastReq.validity_filter.as_of_date # NULL) =>
        LET t == lastReq.validity_filter.as_of_date
        IN /\ \A i \in 1..Len(edges) :
                is_live(edges[i], lastReq.validity_filter) <=> InWindow(edges[i], t)
           /\ lastRes.relationship_count
                = Cardinality({i \in Reached : InWindow(edges[i], t)})

C9_CountEqualsListLength ==
    (Answered /\ relationship_count(edges, lastReq) <= DEFAULT_LIMIT) =>
        LET asList == [lastReq EXCEPT !.aggregation = "list", !.limit = NULL]
            asCount == [lastReq EXCEPT !.aggregation = "count"]
        IN /\ lastReq.aggregation = "count" =>
                lastRes.result = Len(aggregate(edges, asList).result)
           /\ (lastReq.aggregation = "list" /\ lastReq.limit = NULL) =>
                Len(lastRes.result) = aggregate(edges, asCount).result

\* A count over two rows that reach the same node.
C9_Witness ==
    /\ Answered
    /\ lastReq.aggregation = "count"
    /\ lastRes.result = 2
    /\ lastRes.target_nodes_found = 1

DistinctTargets == Range(Targets(edges, lastReq))

\* C10: a node reached through several qualifying relationships is counted
\* once in the result and in target_nodes_found, relationship_count is the
\* number of qualifying relationships, and target_nodes_found <=
\* relationship_count with equality exactly when no node is reached twice.
C10_NodesCountedOnce ==
    Answered =>
        /\ lastReq.aggregation = "count" =>
             lastRes.result = Cardinality(DistinctTargets)
        /\ lastReq.aggregation = "list" =>
             Len(lastRes.result) = Min(Cardinality(DistinctTargets), effective_limit(lastReq))
        /\ lastRes.target_nodes_found = Cardinality(DistinctTargets)
        /\ lastRes.relationship_count
             = Cardinality({i \in Reached : is_live(edges[i], lastReq.validity_filter)})
        /\ lastRes.target_nodes_found <= lastRes.relationship_count
        /\ (lastRes.target_nodes_found = lastRes.relationship_count)
             <=> (\A i, j \in 1..lastRes.relationship_count :
                     Targets(edges, lastReq)[i] = Targets(edges, lastReq)[j] => i = j)

(***************************************************************************)
(* Claims about parameter validation and dispatch (under SpecDispatch).    *)
(***************************************************************************)
InAllowLists(input) ==
    /\ input.label = ABSENT \/ input.label \in ALLOWED_LABELS
    /\ input.relationship_types \subseteq ALLOWED_RELATIONSHIP_TYPES

QueriesOf(id) == {k \in 1..Len(storeLog) : storeLog[k].tool_use_id = id}

\* C3: a request whose label or relationship types are not all in the
\* allow-lists is rejected by validate, and no store query is issued for it:
\* no value outside the allow-lists reaches the store.
C3_RejectedBeforeAnyStoreCall ==
    /\ \A i \in 1..Len(calls) :
         (calls[i].input.well_formed /\ ~InAllowLists(calls[i].input)) =>
            /\ calls[i].phase \in {"requested", "done"}
            /\ calls[i].phase = "done" => calls[i].result = "ValidationError"
            /\ QueriesOf(calls[i].tool_use_id) = {}
    /\ \A k \in 1..Len(storeLog) : InAllowLists(storeLog[k])

\* A call rejected for a relationship type alone, beside a sibling whose query
\* did reach the store.
C3_Witness ==
    \E i, j \in 1..Len(calls) :
        /\ calls[i].input.label \in ALLOWED_LABELS
        /\ ~(calls[i].input.relationship_types \subseteq ALLOWED_RELATIONSHIP_TYPES)
        /\ calls[i].result = "ValidationError"
        /\ QueriesOf(calls[i].tool_use_id) = {}
        /\ QueriesOf(calls[j].tool_use_id) # {}

Before(t, a, b) == \E j, k \in 1..Len(t) : j < k /\ t[j] = a /\ t[k] = b

\* C4: every dispatched call went through invoke, and a call that entered the
\* node resolver, the traversal engine or the store had its input accepted by
\* the parameter validator first.
C4_ValidatedBeforeDelegation ==
    /\ \A i \in 1..Len(calls) :
         LET t == calls[i].trail
         IN /\ calls[i].phase # "requested" => (t # <<>> /\ t[1] = "invoke")
            /\ \A h \in {"resolver", "engine", "store"} :
                 h \in Range(t) =>
                    /\ Before(t, "validator", h)
                    /\ calls[i].input.well_formed
                    /\ InAllowLists(calls[i].input)
    /\ \A k \in 1..Len(storeLog) :
         \E i \in 1..Len(calls) :
            /\ calls[i].tool_use_id = storeLog[k].tool_use_id
            /\ "validator" \in Range(calls[i].trail)
            /\ InAllowLists(calls[i].input)

\* A lookup and an aggregation that both reached the store through the validator.
C4_Witness ==
    /\ Len(calls) = 2
    /\ calls[1].trail = <<"invoke", "validator", "resolver", "store">>
    /\ calls[2].trail = <<"invoke", "validator", "engine", "store">>
    /\ Len(storeLog) = 2

\* C8: for every completion order, each result is folded back under the
\* identifier of the call that produced it, every requested call gets exactly
\* one result, and a failed call neither cancels nor drops its siblings.
C8_ResultsFoldedByCallId ==
    /\ \A i \in 1..Len(calls) :
         /\ Cardinality({k \in 1..Len(completed) :
                           completed[k].tool_use_id = calls[i].tool_use_id})
              = IF calls[i].phase = "done" THEN 1 ELSE 0
         /\ calls[i].phase = "requested" =>
              ENABLED (Invoke(i) /\ UNCHANGED <<engineVars, loopVars, uiVars>>)
         /\ calls[i].phase = "in_store" =>
              ENABLED (StoreReturns(i, "rows") /\ UNCHANGED <<engineVars, loopVars, uiVars>>)
    /\ folded # <<>> =>
         /\ Len(folded) = Len(calls)
         /\ \A i \in 1..Len(calls) :
              /\ folded[i].type = "tool_result"
              /\ folded[i].tool_use_id = calls[i].tool_use_id
              /\ folded[i].is_error = (calls[i].result # "ok")
              /\ Cardinality({k \in 1..Len(folded) :
                                folded[k].tool_use_id = calls[i].tool_use_id}) = 1

\* Two calls folded after the second finished first, one failed and one not.
C8_Witness ==
    /\ Len(calls) = 2
    /\ folded # <<>>
    /\ completed[1].tool_use_id = calls[2].tool_use_id
    /\ completed[1].result = "StoreUnavailable"
    /\ completed[2].result = "ok"
    /\ ~folded[1].is_error
    /\ folded[2].is_error

(***************************************************************************)
(* Claims about the orchestration loop (under SpecLoop).                   *)
(***************************************************************************)
\* C5: the loop terminates: at most MAX_ITERATIONS round trips; every step
\* is one model call or one ExecutingTools step, and one is possible until
\* Done; at the bound exactly one further model call is made, with the
\* directive, no tool runs after it, and its text is the answer even when
\* the response carries a tool call.
C5_LoopBounded ==
    /\ [](/\ toolRounds <= MAX_ITERATIONS
          /\ iteration = toolRounds
          /\ modelCalls <= MAX_ITERATIONS + 1
          /\ loopState \in {"AwaitingModel", "ExecutingTools", "Done"}
          /\ loopState # "Done" => ENABLED NextLoop
          /\ directive =>
               /\ loopState = "Done"
               /\ modelCalls = MAX_ITERATIONS + 1
               /\ toolRounds = MAX_ITERATIONS
               /\ answer = lastResponse.text)
    /\ [][/\ loopState # "Done"
          /\ modelCalls' + toolRounds' = modelCalls + toolRounds + 1
          /\ (loopState = "AwaitingModel" /\ toolRounds = MAX_ITERATIONS) =>
               /\ loopState' = "Done"
               /\ directive'
               /\ modelCalls' = modelCalls + 1
               /\ toolRounds' = toolRounds
               /\ answer' = lastResponse'.text]_vars

\* The forced final call answered with text and a tool call.
C5_Witness ==
    /\ loopState = "Done"
    /\ directive
    /\ lastResponse.tool_use >= 1
    /\ answer = lastResponse.text
    /\ toolRounds = MAX_ITERATIONS
    /\ modelCalls = MAX_ITERATIONS + 1

\* C6 as stated: in AwaitingModel a text-only response leads to Done with
\* that text as the answer and a response with tool calls leads to
\* ExecutingTools; Done is entered from AwaitingModel only and nothing is
\* executed after it.
C6_ToolCallsAlwaysExecuted ==
    [][/\ loopState = "AwaitingModel" =>
            /\ lastResponse'.tool_use = 0 =>
                 (loopState' = "Done" /\ answer' = lastResponse'.text)
            /\ lastResponse'.tool_use >= 1 => loopState' = "ExecutingTools"
       /\ loopState' = "Done" => loopState = "AwaitingModel"
       /\ loopState # "Done"]_vars

\* C6 as amended: a response with tool calls leads to ExecutingTools unless
\* the bound on round trips is reached; then it leads to Done with its text.
C6_ToolCallsExecutedBelowBound ==
    [][/\ loopState = "AwaitingModel" =>
            /\ lastResponse'.tool_use = 0 =>
                 (loopState' = "Done" /\ answer' = lastResponse'.text)
            /\ (lastResponse'.tool_use >= 1 /\ toolRounds < MAX_ITERATIONS) =>
                 (loopState' = "ExecutingTools" /\ answer' = answer)
            /\ (lastResponse'.tool_use >= 1 /\ toolRounds >= MAX_ITERATIONS) =>
                 (loopState' = "Done" /\ answer' = lastResponse'.text)
       /\ loopState' = "Done" => loopState = "AwaitingModel"
       /\ loopState # "Done"]_vars

\* A text-only response after one round of tools ended the loop.
C6_Witness ==
    /\ loopState = "Done"
    /\ lastResponse.tool_use = 0
    /\ answer = lastResponse.text
    /\ toolRounds = 1
    /\ ~directive

\* C7: whatever a tool call of an ExecutingTools step ends in, the step
\* appends one tool result per requested call, an error result for a failed
\* one, and returns to AwaitingModel, where the next step is a model call.
C7_FailuresBecomeToolResults ==
    /\ [](loopState \in {"AwaitingModel", "ExecutingTools", "Done"})
    /\ [][/\ loopState = "ExecutingTools" =>
               /\ loopState' = "AwaitingModel"
               /\ modelCalls' = modelCalls
               /\ answer' = answer
               /\ Len(conversation') = Len(conversation) + Len(requested)
               /\ SubSeq(conversation', 1, Len(conversation)) = conversation
               /\ \A i \in 1..Len(requested) :
                    LET m == conversation'[Len(conversation) + i]
                    IN /\ m.type = "tool_result"
                       /\ m.tool_use_id = requested[i]
                       /\ m.is_error = (lastOutcomes'[i] # "ok")
          /\ loopState = "AwaitingModel" => modelCalls' = modelCalls + 1]_vars

\* After a store failure was handed back as an error result, the model was
\* called again and answered.
C7_Witness ==
    /\ loopState = "Done"
    /\ lastOutcomes # <<>>
    /\ lastOutcomes[1] = "StoreUnavailable"
    /\ conversation[Len(conversation)].type = "tool_result"
    /\ conversation[Len(conversation)].is_error
    /\ modelCalls = toolRounds + 1

(***************************************************************************)
(* Claims about moved assets (under SpecMove).                             *)
(***************************************************************************)
Moved == {i \in 1..Len(edges) : IsOpen(edges[i]) /\ ~IsOpen(edges'[i])}

\* C11: when an asset is moved, the old relationship is kept with
\* validity_to set and a new one is opened to another location; the
\* current_only count on the original location drops by one and every as_of
\* count dated before the move returns what it returned before; every
\* answered call returns the count over the store as it is.
C11_MoveDropsCurrentKeepsHistory ==
    /\ [](lastReq.tool = "aggregate_incoming" =>
            lastRes.result = count_result(edges, lastReq))
    /\ [][Len(edges') = Len(edges) + 1 =>
            /\ Cardinality(Moved) = 1
            /\ \A i \in Moved :
                 LET from == edges[i].dst
                     new == edges'[Len(edges')]
                 IN /\ edges'[i] = [edges[i] EXCEPT !.validity_to = now]
                    /\ new.src = edges[i].src /\ new.dst # from /\ IsOpen(new)
                    /\ count_result(edges', CountRequest(from, CurrentOnly))
                         = count_result(edges, CountRequest(from, CurrentOnly)) - 1
                    /\ \A t \in Times :
                         t < now =>
                            count_result(edges', CountRequest(from, AsOf(t)))
                              = count_result(edges, CountRequest(from, AsOf(t)))]_vars

\* One of the three assets was moved out of Biofilter 11: the current count
\* answered is 2 and the count as of the load is still 3.
C11_Witness ==
    /\ Len(edges) = Len(FixtureEdges) + 1
    /\ \E i \in 1..Len(FixtureEdges) : edges[i].dst = BIOFILTER_11 /\ ~IsOpen(edges[i])
    /\ lastReq = CountRequest(BIOFILTER_11, CurrentOnly)
    /\ lastRes.result = 2
    /\ count_result(edges, CountRequest(BIOFILTER_11, AsOf(0))) = 3

(***************************************************************************)
(* Claims about the node resolver (under SpecMove).                        *)
(***************************************************************************)
SameNameNodes == {n \in FixtureNodes : n.label = lastReq.label /\ n.name = lastReq.name}

\* C12: a lookup of a (label, name) that no node has returns found: false
\* with an empty payload and is not an error result; a lookup of a
\* (label, name) that exactly one node has returns found: true with the
\* node_id of that node, whatever happened in the store since an earlier
\* lookup; an error result comes from a failure of the store only.
C12_AbsentNameIsNotAnError ==
    lastReq.tool = "get_node_by_name" =>
        /\ lastRes.is_error \/ lastRes.found \in BOOLEAN
        /\ (SameNameNodes = {} /\ ~lastRes.is_error) =>
              /\ lastRes.found = FALSE
              /\ lastRes.node_id = ABSENT
              /\ lastRes.attributes = {}
        /\ (Cardinality(SameNameNodes) = 1 /\ ~lastRes.is_error) =>
              /\ lastRes.found = TRUE
              /\ \A n \in SameNameNodes : lastRes.node_id = n.node_id
        /\ lastRes.is_error => lastRes.error = "StoreUnavailable"

\* A lookup of a name no node has, answered found: false after an asset moved.
C12_Witness ==
    /\ lastReq.tool = "get_node_by_name"
    /\ lastReq.name = "Tank 9"
    /\ ~lastRes.is_error
    /\ lastRes.found = FALSE
    /\ Len(edges) > Len(FixtureEdges)

Shape(input) ==
    [tool |-> input.tool, has_label |-> input.label # ABSENT,
     validity_filter |-> input.validity_filter]

InputOf(id) == calls[CHOOSE i \in 1..Len(calls) : calls[i].tool_use_id = id].input

\* C14: the query text sent to the store depends on the shape of the request
\* only: two requests of the same shape that differ in caller-supplied
\* strings (a name, a label, relationship types, the text given to a tool)
\* are sent with the same query text and differ in bound parameters only.
C14_QueryTextDependsOnShapeOnly ==
    \A j, k \in 1..Len(storeLog) :
        Shape(InputOf(storeLog[j].tool_use_id)) = Shape(InputOf(storeLog[k].tool_use_id))
            => storeLog[j].query_template = storeLog[k].query_template

\* C17: a store call that times out ends its tool call with an error result,
\* and the query of a call is sent to the store once: a query is sent only
\* when a requested call is dispatched, never again for a call that is
\* waiting for the store or has finished.
C17_TimedOutCallNotResent ==
    /\ [](\A i \in 1..Len(calls) :
            /\ Cardinality(QueriesOf(calls[i].tool_use_id))
                 = IF "store" \in Range(calls[i].trail) THEN 1 ELSE 0
            /\ calls[i].store_outcome = "timeout" =>
                 /\ calls[i].phase = "done"
                 /\ calls[i].result = "StoreUnavailable"
                 /\ folded # <<>> => folded[i].is_error)
    /\ [][storeLog' # storeLog =>
            \E i \in 1..Len(calls) :
               /\ calls[i].phase = "requested"
               /\ calls'[i].phase = "in_store"
               /\ storeLog' = Append(storeLog, StoreQuery(calls[i].tool_use_id, calls[i].input))]_vars

\* A call whose store query timed out was folded back as an error, its one
\* query in the log.
C17_Witness ==
    /\ folded # <<>>
    /\ calls[1].store_outcome = "timeout"
    /\ folded[1].is_error
    /\ Cardinality(QueriesOf(calls[1].tool_use_id)) = 1
    /\ Len(storeLog) = Len(calls)

C19_RoundsEqualToolRequests ==
    loopState = "Done" => toolRounds = toolRequests

\* C19 as amended: the number of ExecutingTools cycles equals the number of
\* model responses that requested tools, the response to the forced final
\* call at the bound not counted: a run whose model asks for tools once ends
\* after exactly one cycle, one that asks twice after exactly two.
C19_RoundsEqualToolRequestsBelowBound ==
    LET forced == IF directive /\ lastResponse.tool_use >= 1 THEN 1 ELSE 0
        open == IF loopState = "ExecutingTools" THEN 1 ELSE 0
    IN /\ toolRounds = toolRequests - forced - open
       /\ (loopState = "Done" /\ ~directive) =>
             /\ toolRounds = toolRequests
             /\ modelCalls = toolRequests + 1
             /\ lastResponse.tool_use = 0

\* A lookup-then-aggregate run: two responses asked for tools, two cycles.
C19_Witness ==
    /\ loopState = "Done"
    /\ toolRequests = 2
    /\ toolRounds = 2
    /\ modelCalls = 3
    /\ lastResponse.tool_use = 0

(***************************************************************************)
(* SpecEdit: the node-properties panel (useNodeProperties), the update     *)
(* request of graphService and resetGraph of useGraph.                     *)
(***************************************************************************)
\* Upper bound on the rows of the property editor.
MaxProps == 2

\* Keys as typed into the key field: sequences of characters.
TypedKeys == {<<>>, <<" ">>, <<"a">>, <<"a", " ">>, <<"b">>}

\* Texts typed into the value field.
EditTexts == {"", "1"}

\* Texts that JSON.parse accepts (as a number).
JsonTexts == {"1"}

\* Object.entries order of the stored keys.
PropertyKeys == <<(<<"a">>), (<<"b">>)>>

RECURSIVE trimStart(_)
trimStart(k) == IF k # <<>> /\ Head(k) = " " THEN trimStart(Tail(k)) ELSE k

RECURSIVE trimEnd(_)
trimEnd(k) ==
    IF k # <<>> /\ k[Len(k)] = " " THEN trimEnd(SubSeq(k, 1, Len(k) - 1)) ELSE k

\* String.prototype.trim
trim(k) == trimEnd(trimStart(k))

\* parseValue: JSON.parse, else a number, else a boolean, else the text itself.
parseValue(value) ==
    IF value \in JsonTexts THEN [type |-> "number", text |-> value]
    ELSE [type |-> "string", text |-> value]

\* String(value) of the effect that fills the editor.
String(value) == value.text

ValueOf(properties, k) == (CHOOSE p \in properties : p[1] = k)[2]

HasKey(properties, k) == \E p \in properties : p[1] = k

RECURSIVE Entries(_, _)
Entries(properties, keys) ==
    IF keys = <<>> THEN <<>>
    ELSE IF HasKey(properties, Head(keys))
         THEN <<[key |-> Head(keys),
                 value |-> String(ValueOf(properties, Head(keys))),
                 originalKey |-> Head(keys),
                 isNew |-> FALSE, isDeleted |-> FALSE]>>
              \o Entries(properties, Tail(keys))
         ELSE Entries(properties, Tail(keys))

\* useEffect on [selectedNode, isEditing]: the rows of the editor.
LoadEditableProperties(node) == Entries(node.properties, PropertyKeys)

NotDeleted(p) == ~p.isDeleted

activeProps(props) == SelectSeq(props, NotDeleted)

keysOf(props) == [i \in 1..Len(activeProps(props)) |-> trim(activeProps(props)[i].key)]

\* keys.indexOf(key): the first index that holds key.
indexOf(keys, key) == CHOOSE i \in 1..Len(keys) : keys[i] = key /\ \A j \in 1..(i - 1) : keys[j] # key

emptyKeys(props) == {i \in 1..Len(keysOf(props)) : keysOf(props)[i] = <<>>}

duplicates(props) ==
    {i \in 1..Len(keysOf(props)) : indexOf(keysOf(props), keysOf(props)[i]) # i}

EMPTY_KEYS == "Property keys cannot be empty"

DUPLICATE_KEYS == "Duplicate property keys"

validateProperties_ignores_duplicates(props) ==
    IF emptyKeys(props) # {} THEN EMPTY_KEYS ELSE ""

\* validateProperties: the validation error, "" when the rows are valid.
validateProperties(props) ==
    IF duplicates(props) # {} THEN DUPLICATE_KEYS
    ELSE IF emptyKeys(props) # {} THEN EMPTY_KEYS
    ELSE ""

\* properties[prop.key.trim()] = parseValue(prop.value): a later row wins.
SetOf(props) ==
    {<<trim(props[i].key), parseValue(props[i].value)>> :
        i \in {i \in 1..Len(props) :
                 /\ ~props[i].isDeleted
                 /\ \A j \in (i + 1)..Len(props) :
                        props[j].isDeleted \/ trim(props[j].key) # trim(props[i].key)}}

IsDeletedOriginal(p) == p.isDeleted /\ p.originalKey # NO_KEY

IsRenamed(p) == p.originalKey # NO_KEY /\ trim(p.key) # p.originalKey /\ ~p.isDeleted

OriginalKeys(props) == [i \in 1..Len(props) |-> props[i].originalKey]

buildPropertyChanges(props) ==
    [properties |-> SetOf(props),
     deleteProperties |-> OriginalKeys(SelectSeq(props, IsDeletedOriginal))
                          \o OriginalKeys(SelectSeq(props, IsRenamed))]

\* The body of the PUT /graph/nodes/{id}/properties request.
UpdateRequest(nodeId, properties, deleteProperties) ==
    [node_id |-> nodeId, properties |-> properties, delete_properties |-> deleteProperties]

Override(properties, set) == {p \in properties : ~HasKey(set, p[1])} \cup set

Remove(properties, unset) == {p \in properties : p[1] \notin Range(unset)}

\* The update as the backend applies it: named properties of one node are
\* set and removed, in either order.
update_node_properties(store, req) ==
    IF req.node_id \notin DOMAIN store THEN {}
    ELSE {[store EXCEPT ![req.node_id] = changed] :
            changed \in {Remove(Override(store[req.node_id], req.properties), req.delete_properties),
                         Override(Remove(store[req.node_id], req.delete_properties), req.properties)}}

SUCCESS == "Properties updated successfully!"

API_ERROR == "API error"

\* The nodes of the store: Biofilter 11 and two assets located in it.
EditNodeIds == {"4:0", "4:2", "4:3"}

\* Biofilter 11 carries a string whose text reads like a number.
InitialProperties ==
    [n \in EditNodeIds |->
        IF n = "4:0" THEN {<<(<<"a">>), [type |-> "string", text |-> "1"]>>}
        ELSE {<<(<<"a">>), parseValue("")>>}]

NodeOf(store, id) == [id |-> id, properties |-> store[id]]

\* Upper bound on the graph requests in flight at once.
MaxFetches == 2

IdOf(name) == (CHOOSE n \in FixtureNodes : n.name = name).node_id

LabelOf(id) == (CHOOSE n \in FixtureNodes : n.node_id = id).label

\* The order in which the backend lists nodes, and the ids of the relationships.
NodeOrder == <<"4:0", "4:2", "4:3">>

RelIds == <<"5:0", "5:1", "5:2">>

GraphResultRel(i) ==
    [id |-> RelIds[i], from |-> IdOf(FixtureEdges[i].src), to |-> IdOf(FixtureEdges[i].dst)]

\* The entries of seq that lie in keep, in the order of seq.
RECURSIVE Pick(_, _)
Pick(seq, keep) ==
    IF seq = <<>> THEN <<>>
    ELSE (IF Head(seq) \in keep THEN <<Head(seq)>> ELSE <<>>) \o Pick(Tail(seq), keep)

NodesIn(store, ids) ==
    [i \in 1..Len(Pick(NodeOrder, ids \cap DOMAIN store)) |->
        NodeOf(store, Pick(NodeOrder, ids \cap DOMAIN store)[i])]

StoreRels(storeEdges) ==
    Pick([i \in 1..Len(FixtureEdges) |-> GraphResultRel(i)],
         {GraphResultRel(i) : i \in {j \in 1..Len(FixtureEdges) : FixtureEdges[j] \in storeEdges}})

\* GraphData: the subgraph of the store on ids with the relationships among them.
GraphData(store, storeEdges, ids) ==
    [nodes |-> NodesIn(store, ids),
     relationships |-> Pick(StoreRels(storeEdges),
                            {r \in Range(StoreRels(storeEdges)) : r.from \in ids /\ r.to \in ids})]

\* GET /graph
fetchGraph(store, storeEdges) == GraphData(store, storeEdges, DOMAIN store)

\* GET /graph/adjacent/{id}: the node, its neighbours and the relationships
\* between them and the node.
fetchAdjacent(store, storeEdges, id) ==
    LET touching == {r \in Range(StoreRels(storeEdges)) : r.from = id \/ r.to = id}
        ids == {id} \cup {r.from : r \in touching} \cup {r.to : r \in touching}
    IN  [nodes |-> NodesIn(store, ids),
         relationships |-> Pick(StoreRels(storeEdges), touching)]

\* GET /graph/entities/{type}
fetchEntitiesByType(store, entityType) ==
    [nodes |-> NodesIn(store, {id \in DOMAIN store : LabelOf(id) = entityType}),
     relationships |-> <<>>]

Ids(seq) == {seq[i].id : i \in 1..Len(seq)}

\* The relationships of the store: those between its nodes.
StoreEdges == {e \in Range(FixtureEdges) : {IdOf(e.src), IdOf(e.dst)} \subseteq EditNodeIds}

InitEdit ==
    /\ graphNodes = InitialProperties
    /\ graphEdges = StoreEdges
    /\ nodes = fetchGraph(InitialProperties, StoreEdges).nodes
    /\ relationships = fetchGraph(InitialProperties, StoreEdges).relationships
    /\ fetches = <<>>
    /\ selectedNode = NodeOf(InitialProperties, "4:0")
    /\ isEditing = FALSE
    /\ editableProperties = <<>>
    /\ isSaving = FALSE
    /\ error = ABSENT
    /\ successMessage = ABSENT
    /\ pendingUpdate = NoUpdate
    /\ lastHandler = ABSENT

handleEditToggle ==
    /\ selectedNode # NoNode
    /\ ~isEditing
    /\ isEditing' = TRUE
    /\ error' = ABSENT
    /\ successMessage' = ABSENT
    /\ editableProperties' = LoadEditableProperties(selectedNode)
    /\ lastHandler' = "handleEditToggle"
    /\ UNCHANGED <<graphNodes, graphEdges, graphVars, selectedNode, isSaving, pendingUpdate>>

handlePropertyChange(index, field, newValue) ==
    /\ isEditing
    /\ index \in 1..Len(editableProperties)
    /\ ~editableProperties[index].isDeleted
    /\ editableProperties' =
         IF field = "key" THEN [editableProperties EXCEPT ![index].key = newValue]
         ELSE [editableProperties EXCEPT ![index].value = newValue]
    /\ lastHandler' = "handlePropertyChange"
    /\ UNCHANGED <<graphNodes, graphEdges, graphVars, selectedNode, isEditing, isSaving, error,
                   successMessage, pendingUpdate>>

handleAddProperty ==
    /\ isEditing
    /\ Len(editableProperties) < MaxProps
    /\ editableProperties' =
         Append(editableProperties,
                [key |-> <<>>, value |-> "", originalKey |-> NO_KEY,
                 isNew |-> TRUE, isDeleted |-> FALSE])
    /\ lastHandler' = "handleAddProperty"
    /\ UNCHANGED <<graphNodes, graphEdges, graphVars, selectedNode, isEditing, isSaving, error,
                   successMessage, pendingUpdate>>

Splice(s, index) == SubSeq(s, 1, index - 1) \o SubSeq(s, index + 1, Len(s))

handleDeleteProperty(index) ==
    /\ isEditing
    /\ index \in 1..Len(editableProperties)
    /\ ~editableProperties[index].isDeleted
    /\ editableProperties' =
         IF editableProperties[index].isNew THEN Splice(editableProperties, index)
         ELSE [editableProperties EXCEPT ![index].isDeleted = TRUE]
    /\ lastHandler' = "handleDeleteProperty"
    /\ UNCHANGED <<graphNodes, graphEdges, graphVars, selectedNode, isEditing, isSaving, error,
                   successMessage, pendingUpdate>>

handleUndeleteProperty(index) ==
    /\ isEditing
    /\ index \in 1..Len(editableProperties)
    /\ editableProperties[index].isDeleted
    /\ editableProperties' = [editableProperties EXCEPT ![index].isDeleted = FALSE]
    /\ lastHandler' = "handleUndeleteProperty"
    /\ UNCHANGED <<graphNodes, graphEdges, graphVars, selectedNode, isEditing, isSaving, error,
                   successMessage, pendingUpdate>>

\* handleSave up to the await of the update request.
handleSave ==
    /\ isEditing
    /\ ~isSaving
    /\ pendingUpdate = NoUpdate
    /\ successMessage' = ABSENT
    /\ lastHandler' = "handleSave"
    /\ IF validateProperties(editableProperties) # ""
       THEN /\ error' = validateProperties(editableProperties)
            /\ UNCHANGED <<isSaving, pendingUpdate>>
       ELSE /\ error' = ABSENT
            /\ isSaving' = TRUE
            /\ pendingUpdate' =
                 UpdateRequest(selectedNode.id,
                               buildPropertyChanges(editableProperties).properties,
                               buildPropertyChanges(editableProperties).deleteProperties)
    /\ UNCHANGED <<graphNodes, graphEdges, graphVars, selectedNode, isEditing, editableProperties>>

updateNodeInGraph_skips(updatedNode, selectedId) == UNCHANGED <<nodes, selectedNode>>

\* updateNodeInGraph, called as onNodeUpdate: selectedId is the id of the
\* selectedNode of the render that created the callback.
updateNodeInGraph(updatedNode, selectedId) ==
    /\ nodes' = [i \in 1..Len(nodes) |->
                    IF nodes[i].id = updatedNode.id THEN updatedNode ELSE nodes[i]]
    /\ selectedNode' = IF selectedId = updatedNode.id THEN updatedNode ELSE selectedNode

\* The update request returns: the rest of handleSave (success, catch, finally).
\* The callback is the one of the render in which Save was clicked, where the
\* selected node is the node saved; isSaving tells that the panel that sent the
\* request is still mounted, and the state updates of an unmounted one are dropped.
UpdateReturns(outcome) ==
    /\ pendingUpdate # NoUpdate
    /\ pendingUpdate' = NoUpdate
    /\ UNCHANGED <<graphEdges, editableProperties, relationships, fetches>>
    /\ IF outcome = "ok" /\ update_node_properties(graphNodes, pendingUpdate) # {}
       THEN /\ graphNodes' \in update_node_properties(graphNodes, pendingUpdate)
            /\ lastHandler' = "handleSave.then"
            /\ updateNodeInGraph(NodeOf(graphNodes', pendingUpdate.node_id),
                                 pendingUpdate.node_id)
            /\ IF isSaving
               THEN /\ successMessage' = SUCCESS
                    /\ isEditing' = FALSE
                    /\ isSaving' = FALSE
                    /\ UNCHANGED error
               ELSE UNCHANGED <<isEditing, isSaving, error, successMessage>>
       ELSE /\ lastHandler' = "handleSave.catch"
            /\ UNCHANGED <<graphNodes, nodes, selectedNode, isEditing, successMessage>>
            /\ IF isSaving
               THEN error' = API_ERROR /\ isSaving' = FALSE
               ELSE UNCHANGED <<error, isSaving>>

\* setTimeout(() => setSuccessMessage(null), 3000)
SuccessTimeout ==
    /\ successMessage = SUCCESS
    /\ successMessage' = ABSENT
    /\ lastHandler' = "setTimeout"
    /\ UNCHANGED <<graphNodes, graphEdges, graphVars, selectedNode, isEditing, editableProperties,
                   isSaving, error, pendingUpdate>>

handleCancel ==
    /\ isEditing
    /\ ~isSaving
    /\ isEditing' = FALSE
    /\ error' = ABSENT
    /\ successMessage' = ABSENT
    /\ lastHandler' = "handleCancel"
    /\ UNCHANGED <<graphNodes, graphEdges, graphVars, selectedNode, editableProperties, isSaving,
                   pendingUpdate>>

\* The panel is unmounted: the state of useNodeProperties is gone, and a panel
\* mounted later starts from the initial values.
Unmount ==
    /\ isEditing' = FALSE
    /\ editableProperties' = <<>>
    /\ isSaving' = FALSE
    /\ error' = ABSENT
    /\ successMessage' = ABSENT

ResetSucceeded_always(outcome) == TRUE

\* response.ok of the reset call
ResetSucceeded(outcome) == outcome = "ok"

\* resetGraph: POST /graph/reset; on an OK answer the store is empty and the
\* local state is cleared, which unmounts the panel.
resetGraph(outcome) ==
    /\ lastHandler' = IF outcome = "ok" THEN "resetGraph.then" ELSE "resetGraph.catch"
    /\ UNCHANGED <<pendingUpdate, fetches>>
    /\ IF outcome = "ok"
       THEN graphNodes' = <<>> /\ graphEdges' = {}
       ELSE UNCHANGED <<graphNodes, graphEdges>>
    /\ IF ResetSucceeded(outcome)
       THEN /\ nodes' = <<>>
            /\ relationships' = <<>>
            /\ selectedNode' = NoNode
            /\ Unmount
       ELSE UNCHANGED <<nodes, relationships, selectedNode, isEditing,
                        editableProperties, isSaving, error, successMessage>>

ParkedCore == ParkedEngine /\ ParkedLoop /\ ParkedDispatch

NextEdit ==
    \/ handleEditToggle /\ UNCHANGED <<engineVars, loopVars, dispatchVars, chatVars>>
    \/ \E index \in 1..MaxProps, field \in {"key", "value"} :
         \E newValue \in IF field = "key" THEN TypedKeys ELSE EditTexts :
            handlePropertyChange(index, field, newValue)
            /\ UNCHANGED <<engineVars, loopVars, dispatchVars, chatVars>>
    \/ handleAddProperty /\ UNCHANGED <<engineVars, loopVars, dispatchVars, chatVars>>
    \/ \E index \in 1..MaxProps :
         handleDeleteProperty(index)
         /\ UNCHANGED <<engineVars, loopVars, dispatchVars, chatVars>>
    \/ \E index \in 1..MaxProps :
         handleUndeleteProperty(index)
         /\ UNCHANGED <<engineVars, loopVars, dispatchVars, chatVars>>
    \/ handleSave /\ UNCHANGED <<engineVars, loopVars, dispatchVars, chatVars>>
    \/ \E outcome \in {"ok", "error"} :
         UpdateReturns(outcome)
         /\ UNCHANGED <<engineVars, loopVars, dispatchVars, chatVars>>
    \/ SuccessTimeout /\ UNCHANGED <<engineVars, loopVars, dispatchVars, chatVars>>
    \/ handleCancel /\ UNCHANGED <<engineVars, loopVars, dispatchVars, chatVars>>
    \/ \E outcome \in {"ok", "error"} :
         resetGraph(outcome)
         /\ UNCHANGED <<engineVars, loopVars, dispatchVars, chatVars>>

EditInit == ParkedCore /\ InitEdit /\ ParkedChat

SpecEdit == EditInit /\ [][NextEdit]_vars


(***************************************************************************)
(* SpecGraph: the graph state of the frontend (useGraph) with the panel    *)
(* of the selected node.                                                    *)
(***************************************************************************)
\* Subgraphs handed over by the chat panel (onSubgraphReceived).
SubgraphInputs ==
    {GraphData(InitialProperties, StoreEdges, ids) :
        ids \in {{"4:0", "4:2"}, EditNodeIds}}

EntityTypes == {"Location", "Asset"}

InitGraph ==
    /\ graphNodes = InitialProperties
    /\ graphEdges = StoreEdges
    /\ nodes = <<>>
    /\ relationships = <<>>
    /\ fetches = <<>>
    /\ selectedNode = NoNode
    /\ isEditing = FALSE
    /\ editableProperties = <<>>
    /\ isSaving = FALSE
    /\ error = ABSENT
    /\ successMessage = ABSENT
    /\ pendingUpdate = NoUpdate
    /\ lastHandler = ABSENT

\* A graph request is sent; data is the answer the backend gives to it.
SendFetch(op, data) ==
    /\ Len(fetches) < MaxFetches
    /\ fetches' = Append(fetches, [op |-> op, data |-> data])
    /\ lastHandler' = op
    /\ UNCHANGED <<graphNodes, graphEdges, nodes, relationships, selectedNode, isEditing,
                   editableProperties, isSaving, error, successMessage, pendingUpdate>>

\* loadGraph, loadAdjacent and loadEntitiesByType up to the await of the fetch.
loadGraph == SendFetch("loadGraph", fetchGraph(graphNodes, graphEdges))

loadAdjacent(node) ==
    /\ node \in Range(nodes)
    /\ SendFetch("loadAdjacent", fetchAdjacent(graphNodes, graphEdges, node.id))

loadEntitiesByType(entityType) ==
    SendFetch("loadEntitiesByType", fetchEntitiesByType(graphNodes, entityType))

\* The fetch of request i returns with the outcome.
Returns(i, op, outcome) ==
    /\ i \in 1..Len(fetches)
    /\ fetches[i].op = op
    /\ fetches' = Splice(fetches, i)
    /\ lastHandler' = IF outcome = "ok" THEN op \o ".then" ELSE op \o ".catch"
    /\ UNCHANGED <<graphNodes, graphEdges, pendingUpdate>>

loadGraphReturns(i, outcome) ==
    /\ Returns(i, "loadGraph", outcome)
    /\ IF outcome = "ok"
       THEN /\ nodes' = fetches[i].data.nodes
            /\ relationships' = fetches[i].data.relationships
       ELSE UNCHANGED <<nodes, relationships>>
    /\ UNCHANGED <<selectedNode, isEditing, editableProperties, isSaving, error,
                   successMessage>>

mergeNew_unfiltered(prev, new) == prev \o new

\* [...prev, ...new.filter((n) => !existing.has(n.id))]
mergeNew(prev, new) == prev \o Pick(new, {x \in Range(new) : x.id \notin Ids(prev)})

loadAdjacentReturns(i, outcome) ==
    /\ Returns(i, "loadAdjacent", outcome)
    /\ IF outcome = "ok"
       THEN /\ nodes' = mergeNew(nodes, fetches[i].data.nodes)
            /\ relationships' = mergeNew(relationships, fetches[i].data.relationships)
       ELSE UNCHANGED <<nodes, relationships>>
    /\ UNCHANGED <<selectedNode, isEditing, editableProperties, isSaving, error,
                   successMessage>>

loadEntitiesByTypeReturns(i, outcome) ==
    /\ Returns(i, "loadEntitiesByType", outcome)
    /\ UNCHANGED relationships
    /\ IF outcome = "ok" /\ fetches[i].data.nodes # <<>>
       THEN /\ nodes' = fetches[i].data.nodes
            /\ selectedNode' = NoNode
            /\ Unmount
       ELSE UNCHANGED <<nodes, selectedNode, isEditing, editableProperties, isSaving,
                        error, successMessage>>

applyGraphData(entities, rels) ==
    /\ nodes' = entities
    /\ relationships' = rels
    /\ lastHandler' = "applyGraphData"
    /\ UNCHANGED <<graphNodes, graphEdges, fetches, selectedNode, isEditing,
                   editableProperties, isSaving, error, successMessage, pendingUpdate>>

\* selectNode: a click on a node or on the canvas. The panel of a node keeps
\* its state when another node is selected and loses it when none is.
selectNode(node) ==
    /\ selectedNode' = node
    /\ lastHandler' = "selectNode"
    /\ IF node = NoNode
       THEN Unmount
       ELSE /\ editableProperties' =
                 IF isEditing THEN LoadEditableProperties(node) ELSE editableProperties
            /\ UNCHANGED <<isEditing, isSaving, error, successMessage>>
    /\ UNCHANGED <<graphNodes, graphEdges, graphVars, pendingUpdate>>

NextGraph ==
    \/ loadGraph /\ UNCHANGED <<engineVars, loopVars, dispatchVars, chatVars>>
    \/ \E i \in 1..MaxFetches, outcome \in {"ok", "error"} :
         loadGraphReturns(i, outcome)
         /\ UNCHANGED <<engineVars, loopVars, dispatchVars, chatVars>>
    \/ \E node \in Range(nodes) :
         loadAdjacent(node) /\ UNCHANGED <<engineVars, loopVars, dispatchVars, chatVars>>
    \/ \E i \in 1..MaxFetches, outcome \in {"ok", "error"} :
         loadAdjacentReturns(i, outcome)
         /\ UNCHANGED <<engineVars, loopVars, dispatchVars, chatVars>>
    \/ \E entityType \in EntityTypes :
         loadEntitiesByType(entityType)
         /\ UNCHANGED <<engineVars, loopVars, dispatchVars, chatVars>>
    \/ \E i \in 1..MaxFetches, outcome \in {"ok", "error"} :
         loadEntitiesByTypeReturns(i, outcome)
         /\ UNCHANGED <<engineVars, loopVars, dispatchVars, chatVars>>
    \/ \E data \in SubgraphInputs :
         applyGraphData(data.nodes, data.relationships)
         /\ UNCHANGED <<engineVars, loopVars, dispatchVars, chatVars>>
    \/ \E node \in Range(nodes) \cup {NoNode} :
         selectNode(node) /\ UNCHANGED <<engineVars, loopVars, dispatchVars, chatVars>>
    \/ \E outcome \in {"ok", "error"} :
         resetGraph(outcome)
         /\ UNCHANGED <<engineVars, loopVars, dispatchVars, chatVars>>

GraphInit == ParkedCore /\ InitGraph /\ ParkedChat

SpecGraph == GraphInit /\ [][NextGraph]_vars

\* C15: an update request is sent only by handleSave and only when, among the
\* rows not marked deleted, no trimmed key is empty and no two trimmed keys are
\* equal; a handleSave on rows that fail this sets the error message and sends
\* no request.
ValidKeys(props) ==
    \A i \in 1..Len(props) :
        ~props[i].isDeleted =>
            /\ trim(props[i].key) # <<>>
            /\ \A j \in 1..Len(props) :
                 (j # i /\ ~props[j].isDeleted) => trim(props[j].key) # trim(props[i].key)

C15_UpdateSentOnlyAfterValidation ==
    [][/\ (pendingUpdate' # pendingUpdate /\ pendingUpdate' # NoUpdate) =>
            /\ lastHandler' = "handleSave"
            /\ ValidKeys(editableProperties)
       /\ (isEditing /\ ~isSaving /\ lastHandler' = "handleSave"
              /\ ~ValidKeys(editableProperties)) =>
            /\ error' \in {EMPTY_KEYS, DUPLICATE_KEYS}
            /\ pendingUpdate' = pendingUpdate]_vars

C15_Witness ==
    /\ lastHandler = "handleSave"
    /\ error = DUPLICATE_KEYS
    /\ pendingUpdate = NoUpdate
    /\ \E i \in 1..Len(editableProperties) :
         editableProperties[i].key # trim(editableProperties[i].key)

\* C16: the store changes only through the property update, which changes the
\* properties of exactly one node and leaves every other node and every edge
\* unchanged.
C16_OnlyPropertyUpdateChangesStore ==
    [][(graphNodes' # graphNodes \/ graphEdges' # graphEdges) =>
          /\ lastHandler' = "handleSave.then"
          /\ graphEdges' = graphEdges
          /\ DOMAIN graphNodes' = DOMAIN graphNodes
          /\ \A n \in DOMAIN graphNodes :
               n # pendingUpdate.node_id => graphNodes'[n] = graphNodes[n]]_vars

(***************************************************************************)
(* SpecChat: the chat panel (useChat) and the chat request (chatService).  *)
(***************************************************************************)
\* Upper bounds on the requests sent and on the sessions started by a clear.
MaxSends == 2
MaxClears == 2

\* Texts typed into the chat input: sequences of characters.
ChatInputs == {<<" ">>, <<"q", " ">>, <<"r">>}

\* Values of crypto.randomUUID(), in the order they are generated.
UUIDs == <<"uuid-1", "uuid-2", "uuid-3", "uuid-4">>

\* Session id found in localStorage when the panel is created.
StoredSessions == {ABSENT, "stored-session"}

\* response.sessionId of a reply: absent, or the session the server answers under.
ServerSessions == {ABSENT, "server-session"}

ChatMessage(role, content, loading) == [role |-> role, content |-> content, loading |-> loading]

IsPlaceholder(m) == m.role = "assistant" /\ m.loading

replaceAssistantPlaceholder_appends(msgs, content) ==
    Append(msgs, ChatMessage("assistant", content, FALSE))

\* replaceAssistantPlaceholder: the last loading assistant message is replaced,
\* and without one the content is appended.
replaceAssistantPlaceholder(msgs, content) ==
    IF \A i \in 1..Len(msgs) : ~IsPlaceholder(msgs[i])
    THEN Append(msgs, ChatMessage("assistant", content, FALSE))
    ELSE LET actualIdx == CHOOSE i \in 1..Len(msgs) :
                              /\ IsPlaceholder(msgs[i])
                              /\ \A j \in (i + 1)..Len(msgs) : ~IsPlaceholder(msgs[j])
         IN  [msgs EXCEPT ![actualIdx] = ChatMessage("assistant", content, FALSE)]

\* The body of the POST /chat request.
ChatApiRequest(query) == [query |-> query]

\* callChatApi as sendMessage calls it: the second argument is not a parameter
\* of callChatApi and is not part of the payload.
callChatApi(id, query, session) ==
    [id |-> id, query |-> query, sessionId |-> session, payload |-> ChatApiRequest(query)]

Answer(request) == <<"answer to">> \o request.query

REQUEST_ERROR == <<"Error: Request timed out">>

HTTP_ERROR == <<"Error: HTTP 500">>

\* `Error: ${err.message}` of the catch block, by the way the request failed.
ErrorText(outcome) == IF outcome = "timeout" THEN REQUEST_ERROR ELSE HTTP_ERROR

ChatOutcomes == {"ok", "error", "timeout"}

NotLoading(m) == ~m.loading

NoClear == [session_id |-> ABSENT, sent |-> 0]

InitChat ==
    /\ sessionId \in StoredSessions
    /\ messages = <<>>
    /\ chatInput = <<>>
    /\ isLoading = FALSE
    /\ inFlight = {}
    /\ sent = <<>>
    /\ uuids = 0
    /\ lastCleared = NoClear

setInput(text) ==
    /\ chatInput' = text
    /\ UNCHANGED <<sessionId, messages, isLoading, inFlight, sent, uuids, lastCleared>>

\* sendMessage up to the await of callChatApi.
sendMessage ==
    /\ Len(sent) < MaxSends
    /\ IF trim(chatInput) = <<>>
       THEN UNCHANGED <<messages, chatInput, isLoading, inFlight, sent>>
       ELSE /\ messages' = messages \o <<ChatMessage("user", trim(chatInput), FALSE),
                                         ChatMessage("assistant", <<>>, TRUE)>>
            /\ chatInput' = <<>>
            /\ isLoading' = TRUE
            /\ inFlight' = inFlight \cup {callChatApi(Len(sent) + 1, trim(chatInput), sessionId)}
            /\ sent' = Append(sent, callChatApi(Len(sent) + 1, trim(chatInput), sessionId))
    /\ UNCHANGED <<sessionId, uuids, lastCleared>>

\* callChatApi returns: the rest of sendMessage (success, catch, finally).
ChatReturns(request, outcome, session) ==
    /\ request \in inFlight
    /\ inFlight' = inFlight \ {request}
    /\ IF outcome = "ok"
       THEN /\ sessionId' = IF session # ABSENT THEN session ELSE sessionId
            /\ messages' = replaceAssistantPlaceholder(messages, Answer(request))
       ELSE /\ messages' = replaceAssistantPlaceholder(messages, ErrorText(outcome))
            /\ UNCHANGED sessionId
    /\ isLoading' = FALSE
    /\ UNCHANGED <<chatInput, sent, uuids, lastCleared>>

clearMessages ==
    /\ uuids < Min(MaxClears, Len(UUIDs))
    /\ uuids' = uuids + 1
    /\ sessionId' = UUIDs[uuids + 1]
    /\ messages' = <<>>
    /\ lastCleared' = [session_id |-> UUIDs[uuids + 1], sent |-> Len(sent)]
    /\ UNCHANGED <<chatInput, isLoading, inFlight, sent>>

\* The page is loaded again: the state is built from localStorage, which the
\* effects keep equal to messages and sessionId; loading messages are dropped
\* and the requests of the page before are abandoned.
Reload ==
    /\ messages' = SelectSeq(messages, NotLoading)
    /\ chatInput' = <<>>
    /\ isLoading' = FALSE
    /\ inFlight' = {}
    /\ UNCHANGED <<sessionId, sent, uuids, lastCleared>>

NextChat ==
    \/ \E text \in ChatInputs :
         setInput(text) /\ UNCHANGED <<engineVars, loopVars, dispatchVars, editVars>>
    \/ sendMessage /\ UNCHANGED <<engineVars, loopVars, dispatchVars, editVars>>
    \/ \E request \in inFlight, outcome \in ChatOutcomes, session \in ServerSessions :
         ChatReturns(request, outcome, session)
         /\ UNCHANGED <<engineVars, loopVars, dispatchVars, editVars>>
    \/ clearMessages /\ UNCHANGED <<engineVars, loopVars, dispatchVars, editVars>>
    \/ Reload /\ UNCHANGED <<engineVars, loopVars, dispatchVars, editVars>>

ChatInit == ParkedCore /\ ParkedEdit /\ InitChat

SpecChat == ChatInit /\ [][NextChat]_vars

\* C20: from clearMessages until the next request is sent, the message list is
\* empty and the session id is the one the clear generated, also when a reply
\* to an earlier request arrives in between; and the next request is made
\* under that session id, which its payload carries.
C20_NextRequestUnderNewSession ==
    [][(lastCleared # NoClear /\ Len(sent) = lastCleared.sent) =>
          /\ messages = <<>>
          /\ sessionId = lastCleared.session_id
          /\ Len(sent') > Len(sent) =>
               /\ sent'[Len(sent')].sessionId = lastCleared.session_id
               /\ "session_id" \in DOMAIN sent'[Len(sent')].payload
               /\ sent'[Len(sent')].payload.session_id = lastCleared.session_id]_vars

\* C22: without a clear or a reload in between, every answer in the message
\* list stands directly under the question it answers, whatever the order in
\* which the replies of several requests in flight arrive.
IsAnswer(m) == m.role = "assistant" /\ ~m.loading /\ m.content \notin {REQUEST_ERROR, HTTP_ERROR}

C22_AnswerUnderItsQuestion ==
    (lastCleared = NoClear /\ Len(messages) = 2 * Len(sent)) =>
        \A i \in 1..Len(messages) :
            IsAnswer(messages[i]) =>
                /\ i > 1
                /\ messages[i - 1].role = "user"
                /\ messages[i].content = <<"answer to">> \o messages[i - 1].content

\* C27: whenever no chat request is in flight, no message of the list is a
\* loading one: each request ends with a placeholder replaced by the reply or
\* by an error text, and a reload drops the loading messages.
C27_NoLoadingWhenIdle ==
    inFlight = {} => \A i \in 1..Len(messages) : ~messages[i].loading

C27_Witness ==
    /\ inFlight = {}
    /\ Len(sent) = 2
    /\ \E i, j \in 1..Len(messages) :
         /\ messages[i].content = REQUEST_ERROR
         /\ IsAnswer(messages[j])

\* C28: isLoading is true exactly while at least one chat request is in flight.
C28_LoadingIffInFlight == isLoading <=> inFlight # {}

\* C23: in every update request the keys to set and the keys to remove are
\* disjoint.
C23_SetAndRemoveDisjoint ==
    pendingUpdate # NoUpdate =>
        \A k \in Range(pendingUpdate.delete_properties) :
            ~HasKey(pendingUpdate.properties, k)

\* C24: a save of rows that are exactly the rows loaded from the selected node
\* sends, for every property, the stored value with its type.
C24_UnchangedSaveSendsStoredValues ==
    [][(/\ pendingUpdate = NoUpdate
        /\ pendingUpdate' # NoUpdate
        /\ editableProperties = LoadEditableProperties(selectedNode)) =>
           pendingUpdate'.properties = selectedNode.properties]_vars

\* C29: when the update request fails the panel stays in editing mode with its
\* rows unchanged, error is the failure message, and neither the nodes held
\* nor the selected node nor the store change; when it succeeds isEditing
\* becomes false and the node held and the selected node become the returned
\* node; isSaving is true only while the request is pending and false after
\* its return.
C29_SaveOutcomeHandled ==
    [][/\ isSaving => pendingUpdate # NoUpdate
       /\ (isSaving /\ lastHandler' = "handleSave.catch" /\ pendingUpdate' # pendingUpdate) =>
            /\ isEditing /\ isEditing'
            /\ editableProperties' = editableProperties
            /\ error' = API_ERROR
            /\ UNCHANGED <<nodes, selectedNode, graphNodes>>
            /\ ~isSaving'
       /\ (isSaving /\ lastHandler' = "handleSave.then" /\ pendingUpdate' # pendingUpdate) =>
            /\ ~isEditing'
            /\ ~isSaving'
            /\ selectedNode' = NodeOf(graphNodes', pendingUpdate.node_id)
            /\ Len(nodes') = Len(nodes)
            /\ \A i \in 1..Len(nodes) :
                 nodes'[i] = IF nodes[i].id = pendingUpdate.node_id
                             THEN NodeOf(graphNodes', pendingUpdate.node_id)
                             ELSE nodes[i]]_vars

C29_Witness ==
    /\ lastHandler = "handleSave.catch"
    /\ isEditing
    /\ ~isSaving
    /\ error = API_ERROR
    /\ pendingUpdate = NoUpdate
    /\ editableProperties # LoadEditableProperties(selectedNode)
    /\ selectedNode = NodeOf(InitialProperties, selectedNode.id)

\* C21: a resetGraph whose backend call fails leaves nodes, relationships and
\* selectedNode exactly as they were; one whose call succeeds clears all three.
C21_ResetClearsOnlyAfterSuccess ==
    [][/\ lastHandler' = "resetGraph.catch" => UNCHANGED <<nodes, relationships, selectedNode>>
       /\ lastHandler' = "resetGraph.then" =>
            (nodes' = <<>> /\ relationships' = <<>> /\ selectedNode' = NoNode)]_vars

C21_Witness ==
    /\ lastHandler = "resetGraph.catch"
    /\ nodes # <<>>
    /\ relationships # <<>>
    /\ selectedNode # NoNode

\* C25: every relationship held has both endpoints among the nodes held.
C25_RelationshipEndpointsHeld ==
    \A r \in Range(relationships) : r.from \in Ids(nodes) /\ r.to \in Ids(nodes)

\* C26: a loadAdjacent whose fetch succeeds keeps the nodes and relationships
\* held before, unchanged and in their order, as a prefix of the new lists, and
\* no id occurs twice afterwards; one whose fetch fails changes neither list.
NoIdTwice(seq) == \A i, j \in 1..Len(seq) : seq[i].id = seq[j].id => i = j

C26_LoadAdjacentOnlyAdds ==
    [][/\ (lastHandler' = "loadAdjacent.then" /\ Len(fetches') < Len(fetches)) =>
            /\ Len(nodes') >= Len(nodes)
            /\ SubSeq(nodes', 1, Len(nodes)) = nodes
            /\ Len(relationships') >= Len(relationships)
            /\ SubSeq(relationships', 1, Len(relationships)) = relationships
            /\ NoIdTwice(nodes')
            /\ NoIdTwice(relationships')
       /\ lastHandler' = "loadAdjacent.catch" => UNCHANGED <<nodes, relationships>>]_vars

C26_Witness ==
    /\ lastHandler = "loadAdjacent.then"
    /\ Len(nodes) = 3
    /\ Len(relationships) = 1
    /\ Len(fetches) = 1
    /\ fetches[1].op = "loadAdjacent"
    /\ Ids(fetches[1].data.nodes) \cap Ids(nodes) # {}
    /\ Ids(fetches[1].data.relationships) \cap Ids(relationships) = {}

====
